---- MODULE Spec2Model ----
(***************************************************************************)
(* The Workflow class of src/task/Workflow.ts (the DAG execution engine):  *)
(* the step graph, the execution state, the ready-step resolver and the    *)
(* status handlers, as a state machine.                                    *)
(***************************************************************************)
EXTENDS Integers, Sequences, FiniteSets, TLC

\* Date.now() is read from a clock that runs from 1 to MaxClock.
MaxClock == 2
\* metadata.auditLog grows without limit; status handlers stop at this length.
MaxAudit == 2
\* The retry counts a caller reports with a step state run from 0 to
\* MaxRetryCount.
MaxRetryCount == 3

VARIABLES
    definition,    \* _data.definition: the step graph and globalConfig
    status,        \* _data.executionState.status
    progress,      \* _data.executionState.progress
    startedAt,     \* _data.executionState.startedAt (0: undefined)
    completedAt,   \* _data.executionState.completedAt (0: undefined)
    currentStep,   \* _data.executionState.currentStep ("": undefined)
    activeSteps,   \* _data.executionState.activeSteps
    waitingSteps,  \* _data.executionState.waitingSteps
    stepStates,    \* _data.executionState.stepStates: a record keyed by step id
    variables,     \* _data.executionState.variables
    outputs,       \* _data.executionState.outputs
    scheduledAt,   \* _data.executionState.scheduledAt (0: undefined)
    auditLog,      \* _data.metadata.auditLog
    updatedAt,     \* _data.metadata.updatedAt
    now,           \* the value Date.now() returns
    ret,           \* what the last handler returned: <<>> for a void handler,
                   \* <<list>> for getReadySteps
    pureStepStates,\* _data.executionState.stepStates of an instance of the
                   \* class Workflow of src/taw/WorkflowPure.ts built from
                   \* the same data
    workflows,     \* WorkflowRepository.workflows: a Map keyed by id
    tasks,         \* TaskRepository.tasks: a Map keyed by id
    agents         \* AgentRepository.agents: a Map keyed by id

stepVars == <<currentStep, activeSteps, stepStates, progress>>
runVars == <<status, startedAt, completedAt, auditLog>>
bagVars == <<variables, outputs, scheduledAt>>
restVars == <<pureStepStates, workflows, tasks, agents>>
vars == <<definition, status, progress, startedAt, completedAt, currentStep,
          activeSteps, waitingSteps, stepStates, variables, outputs,
          scheduledAt, auditLog, updatedAt, now, ret, pureStepStates,
          workflows, tasks, agents>>

----------------------------------------------------------------------------
(* Schema values *)

WorkflowStatusEnum ==
    {"draft", "pending", "running", "paused", "completed", "failed",
     "cancelled", "timeout", "suspended"}

StepStatusEnum ==
    {"pending", "running", "completed", "failed", "skipped", "cancelled"}

\* One element of definition.steps. condition is the guard's expression
\* ("" when the step has no condition); priority is resources.priority.
WorkflowStep(id, dependsOn, runAfter, condition, priority) ==
    [id |-> id, dependsOn |-> dependsOn, runAfter |-> runAfter,
     condition |-> condition, priority |-> priority]

\* A record of the schema (z.record): a function from its keys to their
\* values. An absent record and {} are read alike by every handler and are
\* both the record without keys.
emptyRecord == [k \in {} |-> 0]

\* A definition; maxConcurrency 0 stands for "not set". startStep names the
\* first step; endSteps and globalConfig are left at their defaults.
WorkflowDefinition(steps, maxConcurrency) ==
    [steps |-> steps,
     startStep |-> IF steps = <<>> THEN "" ELSE steps[1].id,
     endSteps |-> <<>>,
     maxConcurrency |-> maxConcurrency,
     globalConfig |-> emptyRecord]

Range(s) == {s[i] : i \in 1..Len(s)}

\* indexOf: the first position of x in s, 0 when absent (-1 in the source).
indexOf(s, x) ==
    IF x \in Range(s) THEN CHOOSE i \in 1..Len(s) :
                                /\ s[i] = x
                                /\ \A j \in 1..(i - 1) : s[j] # x
    ELSE 0

\* splice(index, 1): s without its element at position i.
splice(s, i) == [j \in 1..(Len(s) - 1) |-> IF j < i THEN s[j] ELSE s[j + 1]]

\* filter: the elements of s at the positions kept (those the callback
\* accepts), in array order.
filter(s, kept) ==
    [j \in 1..Cardinality(kept) |->
        s[CHOOSE i \in kept : Cardinality({k \in kept : k <= i}) = j]]

----------------------------------------------------------------------------
(* Step graphs *)

DiamondGraph ==
    WorkflowDefinition(
        <<WorkflowStep("S1", <<>>, <<>>, "", 5),
          WorkflowStep("S2", <<"S1">>, <<>>, "", 5),
          WorkflowStep("S3", <<"S1">>, <<>>, "", 5),
          WorkflowStep("S4", <<"S2", "S3">>, <<>>, "", 5)>>, 0)

\* Three independent steps under maxConcurrency 2.
IndependentGraph ==
    WorkflowDefinition(
        <<WorkflowStep("S1", <<>>, <<>>, "", 5),
          WorkflowStep("S2", <<>>, <<>>, "", 5),
          WorkflowStep("S3", <<>>, <<>>, "", 5)>>, 2)

\* S1 carries a guard that is false; S2 depends on S1.
GuardedGraph ==
    WorkflowDefinition(
        <<WorkflowStep("S1", <<>>, <<>>, "false", 5),
          WorkflowStep("S2", <<"S1">>, <<>>, "true", 5)>>, 0)

\* S1 depends on an id that is no step of the definition.
DanglingGraph ==
    WorkflowDefinition(<<WorkflowStep("S1", <<"SX">>, <<>>, "", 5)>>, 0)

\* Two independent steps under maxConcurrency 1.
PairGraph ==
    WorkflowDefinition(
        <<WorkflowStep("S1", <<>>, <<>>, "", 5),
          WorkflowStep("S2", <<>>, <<>>, "", 5)>>, 1)

\* S1 and S2 depend on each other.
CycleGraph ==
    WorkflowDefinition(
        <<WorkflowStep("S1", <<"S2">>, <<>>, "", 5),
          WorkflowStep("S2", <<"S1">>, <<>>, "", 5)>>, 0)

\* S1 depends on itself.
SelfGraph ==
    WorkflowDefinition(<<WorkflowStep("S1", <<"S1">>, <<>>, "", 5)>>, 0)

\* A step with a retryPolicy of the given maxAttempts.
withRetryPolicy(step, maxAttempts) ==
    [k \in DOMAIN step \cup {"retryPolicy"} |->
        IF k = "retryPolicy" THEN [maxAttempts |-> maxAttempts] ELSE step[k]]

\* A single step that may be attempted three times.
RetryGraph ==
    WorkflowDefinition(
        <<withRetryPolicy(WorkflowStep("S1", <<>>, <<>>, "", 5), 3)>>, 0)

\* Three independent steps declared with priorities 5, 3 and 7.
PriorityGraph ==
    WorkflowDefinition(
        <<WorkflowStep("S1", <<>>, <<>>, "", 5),
          WorkflowStep("S2", <<>>, <<>>, "", 3),
          WorkflowStep("S3", <<>>, <<>>, "", 7)>>, 0)

\* S2 names S1 in runAfter only; S3 depends on S1 and names S2 in runAfter.
RunAfterGraph ==
    WorkflowDefinition(
        <<WorkflowStep("S1", <<>>, <<>>, "", 5),
          WorkflowStep("S2", <<>>, <<"S1">>, "", 5),
          WorkflowStep("S3", <<"S1">>, <<"S2">>, "", 5)>>, 0)

\* A definition without steps.
EmptyGraph == WorkflowDefinition(<<>>, 0)

----------------------------------------------------------------------------
(* Pure functions of the class *)

getStep(def, stepId) ==
    LET hits == {i \in 1..Len(def.steps) : def.steps[i].id = stepId}
    IN IF hits = {} THEN <<>>
       ELSE def.steps[CHOOSE i \in hits : \A j \in hits : i <= j]

hasStep(def, stepId) == \E i \in 1..Len(def.steps) : def.steps[i].id = stepId

\* getStepState: the entry of stepStates, absent when the id has none.
hasStepState(states, stepId) == stepId \in DOMAIN states

\* A faulty isStepReady: a dependency without recorded state passes.
isStepReadyMissingState(def, states, stepId) ==
    /\ hasStep(def, stepId)
    /\ \A i \in 1..Len(getStep(def, stepId).dependsOn) :
          LET depId == getStep(def, stepId).dependsOn[i]
          IN hasStepState(states, depId) => states[depId].status = "completed"

\* A faulty isStepReady: one completed dependency is enough.
isStepReadyAny(def, states, stepId) ==
    /\ hasStep(def, stepId)
    /\ \/ getStep(def, stepId).dependsOn = <<>>
       \/ \E i \in 1..Len(getStep(def, stepId).dependsOn) :
             LET depId == getStep(def, stepId).dependsOn[i]
             IN /\ hasStepState(states, depId)
                /\ states[depId].status = "completed"

\* A faulty isStepReady: the ids in runAfter must be completed as well.
isStepReadyRunAfterBlocks(def, states, stepId) ==
    /\ hasStep(def, stepId)
    /\ \A i \in 1..Len(getStep(def, stepId).dependsOn) :
          LET depId == getStep(def, stepId).dependsOn[i]
          IN /\ hasStepState(states, depId)
             /\ states[depId].status = "completed"
    /\ \A i \in 1..Len(getStep(def, stepId).runAfter) :
          LET depId == getStep(def, stepId).runAfter[i]
          IN /\ hasStepState(states, depId)
             /\ states[depId].status = "completed"

\* A faulty isStepReady: a dependency that failed or was skipped counts as
\* satisfied.
isStepReadySettled(def, states, stepId) ==
    /\ hasStep(def, stepId)
    /\ \A i \in 1..Len(getStep(def, stepId).dependsOn) :
          LET depId == getStep(def, stepId).dependsOn[i]
          IN /\ hasStepState(states, depId)
             /\ states[depId].status \in {"completed", "failed", "skipped"}

isStepReady(def, states, stepId) ==
    /\ hasStep(def, stepId)
    /\ \A i \in 1..Len(getStep(def, stepId).dependsOn) :
          LET depId == getStep(def, stepId).dependsOn[i]
          IN /\ hasStepState(states, depId)
             /\ states[depId].status = "completed"

\* A faulty getReadySteps: the status of the step itself is not looked at.
getReadyStepsAnyStatus(def, states) ==
    LET keep(step) == isStepReady(def, states, step.id)
        kept == filter(def.steps,
                       {i \in 1..Len(def.steps) : keep(def.steps[i])})
    IN [i \in 1..Len(kept) |-> kept[i].id]

\* A faulty getReadySteps: the ids come out last declared first.
getReadyStepsLastFirst(def, states) ==
    LET keep(step) ==
            /\ (~hasStepState(states, step.id)
                    \/ states[step.id].status = "pending")
            /\ isStepReady(def, states, step.id)
        kept == filter(def.steps,
                       {i \in 1..Len(def.steps) : keep(def.steps[i])})
    IN [i \in 1..Len(kept) |-> kept[Len(kept) + 1 - i].id]

getReadySteps(def, states) ==
    LET keep(step) ==
            /\ (~hasStepState(states, step.id)
                    \/ states[step.id].status = "pending")
            /\ isStepReady(def, states, step.id)
        kept == filter(def.steps,
                       {i \in 1..Len(def.steps) : keep(def.steps[i])})
    IN [i \in 1..Len(kept) |-> kept[i].id]

\* A faulty computeProgress: skipped steps count toward the percentage.
computeProgressCountsSkipped(def, states) ==
    LET count(s) == Cardinality({id \in DOMAIN states : states[id].status = s})
        totalSteps == Len(def.steps)
    IN [totalSteps |-> totalSteps,
        completedSteps |-> count("completed"),
        failedSteps |-> count("failed"),
        skippedSteps |-> count("skipped"),
        progressPercent |->
            IF totalSteps > 0
            THEN [n |-> (count("completed") + count("skipped")) * 100,
                  d |-> totalSteps]
            ELSE [n |-> 0, d |-> 1]]

\* The progress object updateProgress stores. progressPercent is the
\* fraction n/d: (completedSteps / totalSteps) * 100, and 0 when totalSteps = 0.
computeProgress(def, states) ==
    LET count(s) == Cardinality({id \in DOMAIN states : states[id].status = s})
        totalSteps == Len(def.steps)
    IN [totalSteps |-> totalSteps,
        completedSteps |-> count("completed"),
        failedSteps |-> count("failed"),
        skippedSteps |-> count("skipped"),
        progressPercent |->
            IF totalSteps > 0
            THEN [n |-> count("completed") * 100, d |-> totalSteps]
            ELSE [n |-> 0, d |-> 1]]

\* {...old, ...state}: the fields of state override those of old.
spread(old, state) ==
    [k \in DOMAIN old \cup DOMAIN state |->
        IF k \in DOMAIN state THEN state[k] ELSE old[k]]

\* The partial step states a caller passes to updateStepState.
StepStatePatches ==
    {[k \in {} |-> ""]} \cup {[status |-> s] : s \in StepStatusEnum}

\* The partial step states of a caller that also reports retry counts.
RetryPatches ==
    StepStatePatches
        \cup {[retryCount |-> n] : n \in 0..MaxRetryCount}
        \cup {[status |-> s, retryCount |-> n] :
                  s \in StepStatusEnum, n \in 0..MaxRetryCount}

----------------------------------------------------------------------------
(* Construction *)

\* No instance of the other class, and nothing saved in a repository.
restEmpty ==
    /\ pureStepStates = emptyRecord
    /\ workflows = emptyRecord
    /\ tasks = emptyRecord
    /\ agents = emptyRecord

\* Workflow.create(data) with data.definition = def and no executionState.
create(def) ==
    /\ definition = def
    /\ status = "draft"
    /\ progress = [totalSteps |-> 0, completedSteps |-> 0, failedSteps |-> 0,
                   skippedSteps |-> 0, progressPercent |-> [n |-> 0, d |-> 1]]
    /\ startedAt = 0
    /\ completedAt = 0
    /\ currentStep = ""
    /\ activeSteps = <<>>
    /\ waitingSteps = <<>>
    /\ stepStates = [id \in {} |-> <<>>]
    /\ variables = emptyRecord
    /\ outputs = emptyRecord
    /\ scheduledAt = 0
    /\ auditLog = <<>>
    /\ updatedAt = 1
    /\ now = 1
    /\ ret = <<>>

\* What WorkflowSchema.parse checks on the data of the model: the enums, the
\* ranges of the progress numbers (progressPercent within 0..100), the step
\* states and the positive updatedAt.
schemaAccepts(data) ==
    /\ data.executionState.status \in WorkflowStatusEnum
    /\ \A k \in {"totalSteps", "completedSteps", "failedSteps", "skippedSteps"} :
          data.executionState.progress[k] >= 0
    /\ data.executionState.progress.progressPercent.n >= 0
    /\ data.executionState.progress.progressPercent.n
          <= 100 * data.executionState.progress.progressPercent.d
    /\ \A id \in DOMAIN data.executionState.stepStates :
          /\ "status" \in DOMAIN data.executionState.stepStates[id]
          /\ data.executionState.stepStates[id].status \in StepStatusEnum
          /\ "retryCount" \in DOMAIN data.executionState.stepStates[id]
                => data.executionState.stepStates[id].retryCount >= 0
    /\ data.definition.maxConcurrency >= 0
    /\ data.metadata.updatedAt > 0

\* The keys of a step state the schema knows; parse drops any other key.
StepStateKeys ==
    {"status", "startedAt", "completedAt", "duration", "retryCount", "result",
     "error"}

\* The value parse returns for one step state: the known keys, with
\* retryCount defaulting to 0.
parseStepState(state) ==
    [k \in (DOMAIN state \cap StepStateKeys) \cup {"retryCount"} |->
        IF k \in DOMAIN state THEN state[k] ELSE 0]

\* The value WorkflowSchema.parse returns for accepted data: a copy whose
\* step states are parsed one by one.
parse(data) ==
    [data EXCEPT
        !.executionState.stepStates =
            [id \in DOMAIN @ |-> parseStepState(@[id])]]

\* new Workflow(data): <<_data>> of the instance, or <<>> when parse throws
\* a ZodError.
newWorkflow(data) ==
    IF schemaAccepts(data) THEN <<parse(data)>> ELSE <<>>

\* toJSON(): the _data of the instance.
toJSON ==
    [definition |-> definition,
     executionState |->
        [status |-> status, progress |-> progress,
         scheduledAt |-> scheduledAt, startedAt |-> startedAt,
         completedAt |-> completedAt, currentStep |-> currentStep,
         activeSteps |-> activeSteps, waitingSteps |-> waitingSteps,
         stepStates |-> stepStates, variables |-> variables,
         outputs |-> outputs],
     metadata |-> [updatedAt |-> updatedAt, auditLog |-> auditLog]]

----------------------------------------------------------------------------
(* Handlers *)

\* The assignments of updateStatus(s), without metadata.updatedAt.
updateStatusFields(s) ==
    /\ status' = s
    /\ startedAt' = IF s = "running" /\ startedAt = 0 THEN now ELSE startedAt
    /\ completedAt' = IF s \in {"completed", "failed", "cancelled"}
                      THEN now ELSE completedAt

auditEntry(s) == [timestamp |-> now, action |-> "status_changed_to_" \o s]

updateStatus(s) ==
    /\ Len(auditLog) < MaxAudit
    /\ updateStatusFields(s)
    /\ auditLog' = Append(auditLog, auditEntry(s))
    /\ updatedAt' = now
    /\ ret' = <<>>
    /\ UNCHANGED <<definition, restVars, stepVars, waitingSteps, bagVars, now>>

updateProgress ==
    /\ progress' = computeProgress(definition, stepStates)
    /\ updatedAt' = now
    /\ ret' = <<>>
    /\ UNCHANGED <<definition, restVars,
                   runVars, currentStep, activeSteps, waitingSteps,
                   stepStates, bagVars, now>>

\* A faulty setCurrentStep: the id is pushed without looking whether
\* activeSteps holds it already.
setCurrentStepPushing(stepId) ==
    /\ currentStep' = stepId
    /\ activeSteps' = Append(activeSteps, stepId)
    /\ updatedAt' = now
    /\ ret' = <<>>
    /\ UNCHANGED <<definition, restVars,
                   runVars, waitingSteps, stepStates, progress,
                   bagVars, now>>

setCurrentStep(stepId) ==
    /\ currentStep' = stepId
    /\ activeSteps' = IF stepId \in Range(activeSteps) THEN activeSteps
                      ELSE Append(activeSteps, stepId)
    /\ updatedAt' = now
    /\ ret' = <<>>
    /\ UNCHANGED <<definition, restVars,
                   runVars, waitingSteps, stepStates, progress,
                   bagVars, now>>

\* A faulty updateStepState: the step states are rebuilt from the updated
\* entry alone, so the outcomes recorded for other steps are lost.
updateStepStateLosing(stepId, state) ==
    LET old == IF hasStepState(stepStates, stepId) THEN stepStates[stepId]
               ELSE [status |-> "pending", retryCount |-> 0]
        merged == [id \in {stepId} |-> spread(old, state)]
        index == indexOf(activeSteps, stepId)
    IN /\ stepStates' = merged
       /\ activeSteps' =
            IF "status" \in DOMAIN state /\ state.status = "running"
            THEN IF stepId \in Range(activeSteps) THEN activeSteps
                 ELSE Append(activeSteps, stepId)
            ELSE IF index > 0 THEN splice(activeSteps, index)
                 ELSE activeSteps
       /\ progress' = computeProgress(definition, merged)
       /\ updatedAt' = now
       /\ ret' = <<>>
       /\ UNCHANGED <<definition, restVars,
                      runVars, currentStep, waitingSteps, bagVars,
                      now>>

\* A faulty updateStepState: once every step of the definition is completed
\* the call also sets the workflow status to completed.
updateStepStateClosing(stepId, state) ==
    LET created == IF hasStepState(stepStates, stepId) THEN stepStates
                   ELSE [id \in DOMAIN stepStates \cup {stepId} |->
                            IF id = stepId
                            THEN [status |-> "pending", retryCount |-> 0]
                            ELSE stepStates[id]]
        merged == [created EXCEPT ![stepId] = spread(created[stepId], state)]
        index == indexOf(activeSteps, stepId)
    IN /\ stepStates' = merged
       /\ activeSteps' =
            IF "status" \in DOMAIN state /\ state.status = "running"
            THEN IF stepId \in Range(activeSteps) THEN activeSteps
                 ELSE Append(activeSteps, stepId)
            ELSE IF index > 0 THEN splice(activeSteps, index)
                 ELSE activeSteps
       /\ progress' = computeProgress(definition, merged)
       /\ status' =
            IF \A i \in 1..Len(definition.steps) :
                  /\ hasStepState(merged, definition.steps[i].id)
                  /\ merged[definition.steps[i].id].status = "completed"
            THEN "completed" ELSE status
       /\ updatedAt' = now
       /\ ret' = <<>>
       /\ UNCHANGED <<definition, restVars, startedAt, completedAt, auditLog,
                      currentStep, waitingSteps, bagVars, now>>

updateStepState(stepId, state) ==
    LET created == IF hasStepState(stepStates, stepId) THEN stepStates
                   ELSE [id \in DOMAIN stepStates \cup {stepId} |->
                            IF id = stepId
                            THEN [status |-> "pending", retryCount |-> 0]
                            ELSE stepStates[id]]
        merged == [created EXCEPT ![stepId] = spread(created[stepId], state)]
        index == indexOf(activeSteps, stepId)
    IN /\ stepStates' = merged
       /\ activeSteps' =
            IF "status" \in DOMAIN state /\ state.status = "running"
            THEN IF stepId \in Range(activeSteps) THEN activeSteps
                 ELSE Append(activeSteps, stepId)
            ELSE IF index > 0 THEN splice(activeSteps, index)
                 ELSE activeSteps
       /\ progress' = computeProgress(definition, merged)
       /\ updatedAt' = now
       /\ ret' = <<>>
       /\ UNCHANGED <<definition, restVars,
                      runVars, currentStep, waitingSteps, bagVars,
                      now>>

\* obj[key] = value on a record.
assign(obj, key, value) ==
    [k \in DOMAIN obj \cup {key} |-> IF k = key THEN value ELSE obj[k]]

setVariable(key, value) ==
    /\ variables' = assign(variables, key, value)
    /\ updatedAt' = now
    /\ ret' = <<>>
    /\ UNCHANGED <<definition, restVars,
                   runVars, stepVars, waitingSteps, outputs,
                   scheduledAt, now>>

setOutput(key, value) ==
    /\ outputs' = assign(outputs, key, value)
    /\ updatedAt' = now
    /\ ret' = <<>>
    /\ UNCHANGED <<definition, restVars,
                   runVars, stepVars, waitingSteps, variables,
                   scheduledAt, now>>

\* A faulty getReadySteps call: the call also marks what it returns as active.
GetReadyStepsDispatching ==
    /\ ret' = <<getReadySteps(definition, stepStates)>>
    /\ activeSteps' = activeSteps \o getReadySteps(definition, stepStates)
    /\ stepStates' =
         [id \in DOMAIN stepStates
                  \cup Range(getReadySteps(definition, stepStates)) |->
            IF id \in Range(getReadySteps(definition, stepStates))
            THEN [status |-> "running", retryCount |-> 0]
            ELSE stepStates[id]]
    /\ UNCHANGED <<definition, restVars,
                   runVars, currentStep, progress, waitingSteps,
                   bagVars, updatedAt, now>>

\* A call of getReadySteps: it returns the list and writes nothing.
GetReadySteps ==
    /\ ret' = <<getReadySteps(definition, stepStates)>>
    /\ UNCHANGED <<definition, restVars,
                   runVars, stepVars, waitingSteps, bagVars,
                   updatedAt, now>>

\* The data update(updates) hands to the constructor: the fields of updates
\* over those of _data, and metadata merged with a fresh updatedAt.
updatedData(updates) ==
    [spread(toJSON, updates) EXCEPT
        !.metadata =
            spread(spread(toJSON.metadata,
                          IF "metadata" \in DOMAIN updates
                          THEN updates.metadata ELSE emptyRecord),
                   [updatedAt |-> now])]

\* update(updates): ret holds the _data of the instance returned, and is <<>>
\* when the constructor throws. Nothing of the receiver is assigned.
update(updates) ==
    /\ ret' = newWorkflow(updatedData(updates))
    /\ UNCHANGED <<definition, restVars,
                   runVars, stepVars, waitingSteps, bagVars,
                   updatedAt, now>>

\* A request that carries no variables, no config and no scheduledAt.
EmptyRequest == [k \in {} |-> 0]

\* A faulty prepareExecution: the config is spread over the definition
\* itself instead of over definition.globalConfig.
prepareExecutionSpreadsConfig(request) ==
    /\ Len(auditLog) < MaxAudit
    /\ variables' = IF "variables" \in DOMAIN request
                    THEN spread(variables, request.variables)
                    ELSE variables
    /\ definition' =
         IF "config" \in DOMAIN request
         THEN spread(definition, request.config)
         ELSE definition
    /\ scheduledAt' =
         IF "scheduledAt" \in DOMAIN request /\ request.scheduledAt # 0
         THEN request.scheduledAt
         ELSE scheduledAt
    /\ updateStatusFields("pending")
    /\ auditLog' = Append(auditLog, auditEntry("pending"))
    /\ updatedAt' = now
    /\ ret' = <<>>
    /\ UNCHANGED <<restVars, stepVars, waitingSteps, outputs, now>>

\* prepareExecution(request): request is a record with any of the optional
\* fields variables, config and scheduledAt.
prepareExecution(request) ==
    /\ Len(auditLog) < MaxAudit
    /\ variables' = IF "variables" \in DOMAIN request
                    THEN spread(variables, request.variables)
                    ELSE variables
    /\ definition' =
         IF "config" \in DOMAIN request
         THEN [definition EXCEPT
                  !.globalConfig = spread(@, request.config)]
         ELSE definition
    /\ scheduledAt' =
         IF "scheduledAt" \in DOMAIN request /\ request.scheduledAt # 0
         THEN request.scheduledAt
         ELSE scheduledAt
    /\ updateStatusFields("pending")
    /\ auditLog' = Append(auditLog, auditEntry("pending"))
    /\ updatedAt' = now
    /\ ret' = <<>>
    /\ UNCHANGED <<restVars, stepVars, waitingSteps, outputs, now>>

start ==
    /\ Len(auditLog) < MaxAudit
    /\ updateStatusFields("running")
    /\ auditLog' = Append(auditLog, auditEntry("running"))
    /\ progress' = computeProgress(definition, stepStates)
    /\ updatedAt' = now
    /\ ret' = <<>>
    /\ UNCHANGED <<definition, restVars, currentStep, activeSteps, stepStates,
                   waitingSteps, bagVars, now>>

pause == updateStatus("paused")

resume == updateStatus("running")

\* complete(outs): outs is the record of outputs passed, without keys when
\* the call passes none.
complete(outs) ==
    /\ Len(auditLog) < MaxAudit
    /\ outputs' = spread(outputs, outs)
    /\ updateStatusFields("completed")
    /\ auditLog' = Append(auditLog, auditEntry("completed"))
    /\ updatedAt' = now
    /\ ret' = <<>>
    /\ UNCHANGED <<definition, restVars,
                   stepVars, waitingSteps, variables, scheduledAt,
                   now>>

\* fail(error): with an error the handler logs workflow_failed first.
fail(error) ==
    /\ Len(auditLog) + (IF error THEN 1 ELSE 0) < MaxAudit
    /\ updateStatusFields("failed")
    /\ auditLog' =
         Append(IF error
                THEN Append(auditLog,
                            [timestamp |-> now, action |-> "workflow_failed"])
                ELSE auditLog,
                auditEntry("failed"))
    /\ updatedAt' = now
    /\ ret' = <<>>
    /\ UNCHANGED <<definition, restVars, stepVars, waitingSteps, bagVars, now>>

cancel == updateStatus("cancelled")

\* Time passes between two handler calls.
Tick ==
    /\ now < MaxClock
    /\ now' = now + 1
    /\ UNCHANGED <<definition, restVars,
                   runVars, stepVars, waitingSteps, bagVars,
                   updatedAt, ret>>

----------------------------------------------------------------------------
(* Handlers of the class Workflow of src/taw/WorkflowPure.ts, on the same
   _data *)

pureUpdateStepState(stepId, state) ==
    LET created == IF hasStepState(stepStates, stepId) THEN stepStates
                   ELSE [id \in DOMAIN stepStates \cup {stepId} |->
                            IF id = stepId
                            THEN [status |-> "pending", attempts |-> 0,
                                  lastAttempt |-> now]
                            ELSE stepStates[id]]
    IN /\ stepStates' =
            [created EXCEPT ![stepId] = spread(created[stepId], state)]
       /\ updatedAt' = now
       /\ ret' = <<>>
       /\ UNCHANGED <<definition, restVars,
                      runVars, currentStep, activeSteps, progress,
                      waitingSteps, bagVars, now>>

\* prepareExecution(request): request.inputs become variables and every
\* step without recorded state gets a pending one. The status is not
\* assigned.
purePrepareExecution(inputs) ==
    /\ variables' = spread(variables, inputs)
    /\ stepStates' =
         [id \in DOMAIN stepStates
                  \cup {definition.steps[i].id :
                            i \in 1..Len(definition.steps)} |->
            IF hasStepState(stepStates, id) THEN stepStates[id]
            ELSE [status |-> "pending", attempts |-> 0, lastAttempt |-> now]]
    /\ updatedAt' = now
    /\ ret' = <<>>
    /\ UNCHANGED <<definition, restVars,
                   runVars, currentStep, activeSteps, progress,
                   waitingSteps, outputs, scheduledAt, now>>

pureStart ==
    /\ status' = "running"
    /\ startedAt' = now
    /\ updatedAt' = now
    /\ ret' = <<>>
    /\ UNCHANGED <<definition, restVars,
                   completedAt, auditLog, stepVars, waitingSteps,
                   bagVars, now>>

purePause ==
    /\ status' = "paused"
    /\ updatedAt' = now
    /\ ret' = <<>>
    /\ UNCHANGED <<definition, restVars,
                   startedAt, completedAt, auditLog, stepVars,
                   waitingSteps, bagVars, now>>

pureResume ==
    /\ status' = "running"
    /\ updatedAt' = now
    /\ ret' = <<>>
    /\ UNCHANGED <<definition, restVars,
                   startedAt, completedAt, auditLog, stepVars,
                   waitingSteps, bagVars, now>>

\* complete(outs): each key of outs is written with setOutput.
pureComplete(outs) ==
    /\ status' = "completed"
    /\ completedAt' = now
    /\ outputs' = spread(outputs, outs)
    /\ updatedAt' = now
    /\ ret' = <<>>
    /\ UNCHANGED <<definition, restVars,
                   startedAt, auditLog, stepVars, waitingSteps,
                   variables, scheduledAt, now>>

----------------------------------------------------------------------------
(* Specifications *)

\* A single step without dependencies.
SingleGraph ==
    WorkflowDefinition(<<WorkflowStep("S1", <<>>, <<>>, "", 5)>>, 0)

\* The ids a caller names: the steps and the ids their dependsOn name.
CallerIds ==
    {definition.steps[i].id : i \in 1..Len(definition.steps)}
        \cup UNION {Range(definition.steps[i].dependsOn) :
                        i \in 1..Len(definition.steps)}

StepCalls ==
    \/ \E stepId \in CallerIds, state \in StepStatePatches :
          updateStepState(stepId, state)
    \/ \E stepId \in CallerIds : setCurrentStep(stepId)
    \/ GetReadySteps
    \/ updateProgress

StatusCalls ==
    \/ \E s \in WorkflowStatusEnum : updateStatus(s)
    \/ prepareExecution(EmptyRequest)
    \/ start
    \/ pause
    \/ resume
    \/ complete(emptyRecord)
    \/ \E error \in BOOLEAN : fail(error)
    \/ cancel

\* The step machine and the resolver on two-id graphs, with the run started,
\* completed and cancelled around them.
Init == \E def \in {GuardedGraph, DanglingGraph, PairGraph} : create(def)
            /\ restEmpty

Next == StepCalls \/ start \/ complete(emptyRecord) \/ cancel

Spec == Init /\ [][Next]_vars

\* The workflow machine: every status handler, the clock, and the outcomes of
\* one step.
InitRun == create(SingleGraph) /\ restEmpty

NextRun ==
    \/ StatusCalls
    \/ \E state \in StepStatePatches : updateStepState("S1", state)
    \/ Tick

SpecRun == InitRun /\ [][NextRun]_vars

\* The diamond S1 -> {S2, S3} -> S4 driven by step outcomes.
InitDiamond == create(DiamondGraph) /\ restEmpty

NextDiamond ==
    \/ \E stepId \in CallerIds, state \in StepStatePatches :
          updateStepState(stepId, state)
    \/ GetReadySteps

SpecDiamond == InitDiamond /\ [][NextDiamond]_vars

\* Three independent steps under maxConcurrency 2, with cancellation.
InitIndependent == create(IndependentGraph) /\ restEmpty

NextIndependent ==
    \/ \E stepId \in CallerIds, state \in StepStatePatches :
          updateStepState(stepId, state)
    \/ GetReadySteps
    \/ cancel

SpecIndependent == InitIndependent /\ [][NextIndependent]_vars

\* The keys and values a caller writes to the variable and output records.
BagKeys == {"k"}
BagValues == {1, 2}

\* The requests passed to prepareExecution: none of the optional fields,
\* variables, config (with a key named steps) or scheduledAt.
Requests ==
    {EmptyRequest,
     [variables |-> [k |-> 1]],
     [config |-> [steps |-> <<>>]],
     [scheduledAt |-> 1]}

\* The outputs passed to complete: none, or a value for the key.
OutputRecords == {emptyRecord} \cup {[k |-> v] : v \in BagValues}

\* Every handler of the class on one step, without the clock.
InitAll == create(SingleGraph) /\ restEmpty

NextAll ==
    \/ \E s \in WorkflowStatusEnum : updateStatus(s)
    \/ \E request \in Requests : prepareExecution(request)
    \/ start
    \/ pause
    \/ resume
    \/ \E outs \in OutputRecords : complete(outs)
    \/ \E error \in BOOLEAN : fail(error)
    \/ cancel
    \/ \E state \in StepStatePatches : updateStepState("S1", state)
    \/ setCurrentStep("S1")
    \/ \E key \in BagKeys, value \in BagValues : setVariable(key, value)
    \/ \E key \in BagKeys, value \in BagValues : setOutput(key, value)

SpecAll == InitAll /\ [][NextAll]_vars

\* Graphs whose dependsOn edges hold a cycle: the constructor parses them
\* with WorkflowSchema, which has no check on the edges, so create returns an
\* instance for them as for any other graph.
InitCycle == \E def \in {CycleGraph, SelfGraph} : create(def) /\ restEmpty

NextCycle == StepCalls \/ start

SpecCycle == InitCycle /\ [][NextCycle]_vars

\* The updates passed to update: none, a reset execution state, or a
\* metadata with an emptied audit log.
Updates ==
    {[k \in {} |-> 0],
     [executionState |->
        [status |-> "draft",
         progress |-> [totalSteps |-> 0, completedSteps |-> 0,
                       failedSteps |-> 0, skippedSteps |-> 0,
                       progressPercent |-> [n |-> 0, d |-> 1]],
         scheduledAt |-> 0, startedAt |-> 0, completedAt |-> 0,
         currentStep |-> "", activeSteps |-> <<>>, waitingSteps |-> <<>>,
         stepStates |-> [id \in {} |-> <<>>], variables |-> emptyRecord,
         outputs |-> emptyRecord]],
     [metadata |-> [auditLog |-> <<>>]]}

\* update on the states the step handlers, start and the clock reach.
InitUpdate == create(DanglingGraph) /\ restEmpty

NextUpdate ==
    \/ \E stepId \in CallerIds, state \in StepStatePatches :
          updateStepState(stepId, state)
    \/ \E stepId \in CallerIds : setCurrentStep(stepId)
    \/ start
    \/ \E updates \in Updates : update(updates)
    \/ Tick

SpecUpdate == InitUpdate /\ [][NextUpdate]_vars

\* The run handlers of WorkflowPure.ts on one step, with the clock. The
\* instance is built by the constructor from the data of a draft workflow.
InitPure == create(SingleGraph) /\ restEmpty

NextPure ==
    \/ \E state \in StepStatePatches : pureUpdateStepState("S1", state)
    \/ \E inputs \in {emptyRecord, [k |-> 1]} : purePrepareExecution(inputs)
    \/ pureStart
    \/ purePause
    \/ pureResume
    \/ \E outs \in OutputRecords : pureComplete(outs)
    \/ Tick

SpecPure == InitPure /\ [][NextPure]_vars

\* The progress aggregation on three independent steps and on a definition
\* without steps, whose caller reports outcomes under the same three ids.
ProgressIds == {"S1", "S2", "S3"}

InitProgress == \E def \in {EmptyGraph, IndependentGraph} : create(def)
            /\ restEmpty

NextProgress ==
    \/ \E stepId \in ProgressIds, state \in StepStatePatches :
          updateStepState(stepId, state)
    \/ updateProgress

SpecProgress == InitProgress /\ [][NextProgress]_vars

\* The resolver on three ready steps of different priority.
InitPriority == create(PriorityGraph) /\ restEmpty

NextPriority ==
    \/ \E stepId \in CallerIds, state \in StepStatePatches :
          updateStepState(stepId, state)
    \/ GetReadySteps

SpecPriority == InitPriority /\ [][NextPriority]_vars

\* The resolver on a graph with runAfter hints.
InitRunAfter == create(RunAfterGraph) /\ restEmpty

NextRunAfter ==
    \/ \E stepId \in CallerIds, state \in StepStatePatches :
          updateStepState(stepId, state)
    \/ GetReadySteps

SpecRunAfter == InitRunAfter /\ [][NextRunAfter]_vars

\* One step with a retry policy, its outcomes reported with retry counts.
InitRetry == create(RetryGraph) /\ restEmpty

NextRetry ==
    \/ \E state \in RetryPatches : updateStepState("S1", state)
    \/ setCurrentStep("S1")
    \/ GetReadySteps
    \/ start

SpecRetry == InitRetry /\ [][NextRetry]_vars

----------------------------------------------------------------------------
(* Properties *)

\* A step's status as the resolver reads it: no recorded state counts as
\* pending.
statusOf(states, stepId) ==
    IF hasStepState(states, stepId) THEN states[stepId].status ELSE "pending"

stepsOf(def) == Range(def.steps)

dependsOnCompleted(def, states, step) ==
    \A depId \in Range(step.dependsOn) :
        hasStepState(states, depId) /\ states[depId].status = "completed"

\* The value of a guard: a step without condition passes, and the
\* expressions used in the graphs are the literals "true" and "false".
guardHolds(step) == step.condition # "false"

ready == getReadySteps(definition, stepStates)

returned == ret # <<>>

\* C1: getReadySteps returns a step if and only if the step is pending (no
\* recorded state counts as pending), every id in its dependsOn is completed
\* and its guard, if any, evaluates true.
C1_ReadyIffPendingDepsGuard ==
    returned =>
        \A step \in stepsOf(definition) :
            step.id \in Range(ret[1]) <=>
                /\ statusOf(stepStates, step.id) = "pending"
                /\ dependsOnCompleted(definition, stepStates, step)
                /\ guardHolds(step)

\* C2: in every reachable state a step with at least one dependsOn id that is
\* not completed (an id without recorded state included) is not in the
\* result of getReadySteps, neither as computed on the state nor as returned
\* by the call that has just run.
C2_UnsatisfiedDependencyNotReady ==
    \A step \in stepsOf(definition) :
        ~dependsOnCompleted(definition, stepStates, step) =>
            /\ step.id \notin Range(ready)
            /\ returned => step.id \notin Range(ret[1])

\* C2 witness: after start, setCurrentStep and a step update, getReadySteps
\* has returned without a pending step that waits on an id without recorded
\* state.
C2_Witness ==
    /\ returned
    /\ status = "running"
    /\ currentStep # ""
    /\ DOMAIN stepStates # {}
    /\ \E step \in stepsOf(definition) :
          /\ statusOf(stepStates, step.id) = "pending"
          /\ \E depId \in Range(step.dependsOn) :
                ~hasStepState(stepStates, depId)
          /\ step.id \notin Range(ret[1])

\* C3: on the diamond S1 -> {S2, S3} -> S4: with S1 completed and the rest
\* pending the ready list is S2, S3; with S1 and S2 completed and S3, S4
\* pending it holds no step beyond those (S4 is not in it); with S1, S2 and
\* S3 completed and S4 pending it is exactly S4.
C3_DiamondReadySets ==
    LET st(id) == statusOf(stepStates, id)
    IN definition = DiamondGraph =>
        /\ (st("S1") = "completed" /\ st("S2") = "pending"
                /\ st("S3") = "pending" /\ st("S4") = "pending")
            => ready = <<"S2", "S3">>
        /\ (st("S1") = "completed" /\ st("S2") = "completed"
                /\ st("S3") = "pending" /\ st("S4") = "pending")
            => (Range(ready) \subseteq {"S2", "S3"} /\ "S4" \notin Range(ready))
        /\ (st("S1") = "completed" /\ st("S2") = "completed"
                /\ st("S3") = "completed" /\ st("S4") = "pending")
            => ready = <<"S4">>

\* C3 witness: S1, S2 and S3 are completed and getReadySteps has returned S4
\* alone.
C3_Witness ==
    /\ definition = DiamondGraph
    /\ \A id \in {"S1", "S2", "S3"} :
          hasStepState(stepStates, id) /\ stepStates[id].status = "completed"
    /\ ret = <<(<<"S4">>)>>

\* C4: every step getReadySteps returns has status pending (or no recorded
\* state); a running, completed, failed, skipped or cancelled step is never
\* returned.
C4_ReadyStepsArePending ==
    /\ \A id \in Range(ready) : statusOf(stepStates, id) = "pending"
    /\ returned =>
          \A id \in Range(ret[1]) : statusOf(stepStates, id) = "pending"

\* C4 witness: getReadySteps has returned a step, and has left out a step
\* that is not pending although all its dependencies are completed.
C4_Witness ==
    /\ returned
    /\ ret[1] # <<>>
    /\ \E step \in stepsOf(definition) :
          /\ statusOf(stepStates, step.id) # "pending"
          /\ dependsOnCompleted(definition, stepStates, step)
          /\ step.id \notin Range(ret[1])

\* C5: a step in which getReadySteps returns leaves the step states,
\* activeSteps, waitingSteps, progress and the workflow status as they were,
\* and a second call on the state it leaves returns the same list in the
\* same order.
C5_GetReadyStepsPure ==
    [][ret' # <<>> =>
            /\ UNCHANGED <<stepStates, activeSteps, waitingSteps, progress,
                           status>>
            /\ getReadySteps(definition', stepStates') = ret'[1]]_vars

\* C5 witness: getReadySteps has returned two steps of a run that holds
\* recorded step states.
C5_Witness ==
    /\ returned
    /\ Len(ret[1]) >= 2
    /\ DOMAIN stepStates # {}

\* The transitions of the step machine: into running from pending, into
\* completed or failed from running, into skipped or cancelled from pending
\* or running.
legalStepTransition(old, new) ==
    \/ new = "running" /\ old = "pending"
    \/ new \in {"completed", "failed"} /\ old = "running"
    \/ new \in {"skipped", "cancelled"} /\ old \in {"pending", "running"}

\* C6: a step's status changes only by a transition of the step machine: a
\* request for any other transition is rejected and the status stays as it
\* was.
C6_OnlyLegalStepTransitions ==
    [][\A id \in CallerIds :
          statusOf(stepStates', id) # statusOf(stepStates, id)
              => legalStepTransition(statusOf(stepStates, id),
                                     statusOf(stepStates', id))]_vars

\* C7: once a step's status is running, completed, failed, skipped or
\* cancelled, no operation makes it pending again.
C7_NoReturnToPending ==
    [][\A id \in DOMAIN stepStates :
          stepStates[id].status # "pending"
              => statusOf(stepStates', id) # "pending"]_vars

TerminalWorkflowStatus == {"completed", "failed", "cancelled", "timeout"}

\* C8: completed, failed, cancelled and timeout are absorbing: once the
\* workflow status is one of them no later handler call changes it.
C8_TerminalStatusAbsorbing ==
    [][(status \in TerminalWorkflowStatus) => (status' = status)]_vars

\* C9: cancelling a run with two running steps and one pending step sets all
\* three steps and the run to cancelled, and a completion reported for a step
\* of the cancelled run afterwards leaves that step cancelled.
C9_CancelCascades ==
    [][/\ (/\ status # "cancelled"
           /\ status' = "cancelled"
           /\ statusOf(stepStates, "S1") = "running"
           /\ statusOf(stepStates, "S2") = "running"
           /\ statusOf(stepStates, "S3") = "pending")
          => \A id \in {"S1", "S2", "S3"} :
                statusOf(stepStates', id) = "cancelled"
       /\ \A id \in {"S1", "S2", "S3"} :
             (status = "cancelled" /\ statusOf(stepStates, id) = "cancelled")
                => statusOf(stepStates', id) = "cancelled"]_vars

\* C10: with maxConcurrency set, getReadySteps never returns more steps than
\* maxConcurrency minus the number of active steps, and the ready steps it
\* holds back are in waitingSteps.
C10_ReadyWithinConcurrencyBudget ==
    (returned /\ definition.maxConcurrency > 0) =>
        /\ Len(ret[1]) <= definition.maxConcurrency - Len(activeSteps)
        /\ \A step \in stepsOf(definition) :
              (/\ statusOf(stepStates, step.id) = "pending"
               /\ dependsOnCompleted(definition, stepStates, step)
               /\ step.id \notin Range(ret[1]))
                  => step.id \in Range(waitingSteps)

\* The ids in a step's dependsOn are steps of the definition, each with a
\* recorded state that is skipped or completed.
dependsOnSettled(def, states, step) ==
    \A depId \in Range(step.dependsOn) :
        /\ hasStep(def, depId)
        /\ hasStepState(states, depId)
        /\ states[depId].status \in {"skipped", "completed"}

\* C11: a step whose guard evaluates false is skipped without ever being
\* running, and skip propagates: a pending step whose guard holds and whose
\* predecessors are all skipped or completed is ready.
C11_GuardFalseSkipsAndSkipPropagates ==
    \A step \in stepsOf(definition) :
        /\ ~guardHolds(step) => statusOf(stepStates, step.id) # "running"
        /\ (/\ statusOf(stepStates, step.id) = "pending"
            /\ guardHolds(step)
            /\ dependsOnSettled(definition, stepStates, step))
              => step.id \in Range(ready)

\* progressPercent as the fraction n/d: a is at most b.
percentLeq(a, b) == a.n * b.d <= b.n * a.d

\* C12: within a run progress.progressPercent never decreases across the
\* step transitions applied through updateStepState.
C12_ProgressPercentMonotonic ==
    [][percentLeq(progress.progressPercent, progress'.progressPercent)]_vars

\* C13: pause() moves the run to paused only from running and resume() moves
\* it to running only from paused; from any other status the call leaves the
\* status as it was.
C13_PauseResumeGuarded ==
    [][/\ (pause /\ status # "running") => (status' = status)
       /\ (resume /\ status # "paused") => (status' = status)]_vars

\* C20: activeSteps is exactly the set of step ids whose recorded status is
\* running.
C20_ActiveStepsAreRunningSteps ==
    \A id \in CallerIds :
        id \in Range(activeSteps) <=>
            (hasStepState(stepStates, id) /\ stepStates[id].status = "running")

RECURSIVE dependsOnPath(_, _, _, _)
\* There is a path of at most n dependsOn edges from step id from to id to.
dependsOnPath(def, from, to, n) ==
    /\ n > 0
    /\ hasStep(def, from)
    /\ \E depId \in Range(getStep(def, from).dependsOn) :
          depId = to \/ dependsOnPath(def, depId, to, n - 1)

hasCycle(def) ==
    \E step \in stepsOf(def) :
        dependsOnPath(def, step.id, step.id, Len(def.steps))

\* C15: a step graph whose dependsOn edges hold a cycle (a step depending on
\* itself included) is rejected at construction, so no workflow with such a
\* graph ever has status running.
C15_CyclicGraphNeverRuns ==
    hasCycle(definition) => status # "running"

\* C14: the output record is write-once per key: once a key holds a value,
\* no later setOutput or complete call changes the value under that key.
C14_OutputsWriteOnce ==
    [][\A key \in DOMAIN outputs :
          key \in DOMAIN outputs' /\ outputs'[key] = outputs[key]]_vars

\* C18: no handler changes the step graph: definition.steps, every step's
\* dependsOn, startStep and endSteps stay as they were created.
C18_StepGraphImmutable ==
    [][/\ definition'.steps = definition.steps
       /\ \A i \in 1..Len(definition.steps) :
             definition'.steps[i].dependsOn = definition.steps[i].dependsOn
       /\ definition'.startStep = definition.startStep
       /\ definition'.endSteps = definition.endSteps]_vars

\* C18 witness: prepareExecution has written a config with a key named steps
\* into globalConfig, the step has a recorded state and is the current step,
\* variables and outputs are written and the run has completed, and the
\* graph is the one created.
C18_Witness ==
    /\ "steps" \in DOMAIN definition.globalConfig
    /\ definition.steps = SingleGraph.steps
    /\ definition.startStep = "S1"
    /\ hasStepState(stepStates, "S1")
    /\ currentStep = "S1"
    /\ DOMAIN variables # {}
    /\ DOMAIN outputs # {}
    /\ status = "completed"

\* C16: in every reachable state new Workflow(w.toJSON()) yields an instance
\* whose getReadySteps result is that of w.
C16_RoundTripPreservesReady ==
    LET made == newWorkflow(toJSON)
    IN /\ made # <<>>
       /\ getReadySteps(made[1].definition,
                        made[1].executionState.stepStates) = ready

\* The retry count recorded for a step, 0 when it has no state.
retryCountOf(states, stepId) ==
    IF hasStepState(states, stepId) THEN states[stepId].retryCount ELSE 0

\* C17: a failed step is retried (leaves failed for pending or running) only
\* while its retry count is below retryPolicy.maxAttempts, and the retry
\* count never exceeds maxAttempts.
C17_RetryBoundedByMaxAttempts ==
    [][\A step \in stepsOf(definition) :
          "retryPolicy" \in DOMAIN step =>
              /\ retryCountOf(stepStates', step.id)
                    <= step.retryPolicy.maxAttempts
              /\ (/\ statusOf(stepStates, step.id) = "failed"
                  /\ statusOf(stepStates', step.id) \in {"pending", "running"})
                    => retryCountOf(stepStates, step.id)
                          < step.retryPolicy.maxAttempts]_vars

\* C19: update(updates) returns a new Workflow instance and leaves the
\* receiver as it was: its status, step states, activeSteps and progress
\* after the call equal those before it.
C19_UpdateReturnsNewInstance ==
    [][\A updates \in Updates :
          update(updates) =>
              /\ ret' # <<>>
              /\ UNCHANGED <<status, stepStates, activeSteps, progress>>]_vars

\* The number of recorded step states with status s.
countStatus(states, s) ==
    Cardinality({id \in DOMAIN states : states[id].status = s})

\* C21: in every state, from creation onward, the stored progress equals the
\* values recomputed from the definition and the step states: totalSteps is
\* the number of defined steps and completedSteps, failedSteps and
\* skippedSteps are the numbers of step states with that status.
C21_ProgressNeverStale ==
    /\ progress.totalSteps = Len(definition.steps)
    /\ progress.completedSteps = countStatus(stepStates, "completed")
    /\ progress.failedSteps = countStatus(stepStates, "failed")
    /\ progress.skippedSteps = countStatus(stepStates, "skipped")

\* C22: the start timestamp is recorded once: after startedAt has been set,
\* no later start() or resume() changes it.
C22_StartedAtSetOnce ==
    [][(startedAt # 0) => (startedAt' = startedAt)]_vars

\* C23: prepareExecution moves a draft run to pending, and the status
\* becomes running only from pending (start) or from paused (resume).
C23_RunningOnlyFromPendingOrPaused ==
    [][/\ (prepareExecution(EmptyRequest) /\ status = "draft")
            => (status' = "pending")
       /\ (status' = "running" /\ status # "running")
            => (status \in {"pending", "paused"})]_vars

\* C24: every transition, of the workflow status and of a step status alike,
\* appends exactly one entry to metadata.auditLog, and the entries already in
\* the log are never modified or removed.
C24_TransitionsAudited ==
    [][/\ (\/ status' # status
           \/ \E id \in CallerIds :
                 statusOf(stepStates', id) # statusOf(stepStates, id))
            => Len(auditLog') = Len(auditLog) + 1
       /\ Len(auditLog') >= Len(auditLog)
       /\ SubSeq(auditLog', 1, Len(auditLog)) = auditLog]_vars

\* C25: a step outcome reported through updateStepState never changes the
\* workflow status: no call of updateStepState, and no step in which the
\* step states change, changes status; a completion that arrives after the
\* run is completed, failed, cancelled or timeout leaves it as it is.
C25_StepOutcomeKeepsStatus ==
    [][/\ \A id \in CallerIds, state \in StepStatePatches :
             updateStepState(id, state) => (status' = status)
       /\ (stepStates' # stepStates) => (status' = status)]_vars

\* C25 witness: the run has been cancelled, failed or timed out, and after
\* that (later than every audit entry) updateStepState has recorded the step
\* as completed.
C25_Witness ==
    /\ status \in {"failed", "cancelled", "timeout"}
    /\ hasStepState(stepStates, "S1")
    /\ stepStates["S1"].status = "completed"
    /\ auditLog # <<>>
    /\ \A i \in 1..Len(auditLog) : auditLog[i].timestamp < updatedAt

\* C26: updateProgress (called on its own or at the end of updateStepState)
\* sets progressPercent to completedSteps / totalSteps as a percentage,
\* where completedSteps is the number of completed step states and
\* totalSteps the number of defined steps, and to 0 when the definition has
\* no steps; failed and skipped steps do not count.
C26_PercentIsCompletedOverTotal ==
    [][(\/ updateProgress
        \/ \E stepId \in ProgressIds, state \in StepStatePatches :
              updateStepState(stepId, state))
          => LET total == Len(definition.steps)
                 completed == countStatus(stepStates', "completed")
                 percent == progress'.progressPercent
             IN /\ percent.d > 0
                /\ IF total > 0
                   THEN percent.n * total = completed * 100 * percent.d
                   ELSE percent.n = 0]_vars

\* C26 witness: of three steps one is completed, one failed and one skipped,
\* and the stored percentage is one third of 100.
C26_Witness ==
    /\ definition = IndependentGraph
    /\ countStatus(stepStates, "completed") = 1
    /\ countStatus(stepStates, "failed") = 1
    /\ countStatus(stepStates, "skipped") = 1
    /\ progress.completedSteps = 1
    /\ progress.progressPercent.n * 3 = 100 * progress.progressPercent.d

\* The position of a step id in definition.steps (its declaration order).
declaredAt(def, stepId) == indexOf([i \in 1..Len(def.steps) |-> def.steps[i].id],
                                   stepId)

\* C27: the list getReadySteps returns is in ascending priority
\* (resources.priority) and, among equal priorities, in declaration order.
C27_ReadyInPriorityOrder ==
    returned =>
        \A i, j \in 1..Len(ret[1]) :
            i < j =>
                LET a == getStep(definition, ret[1][i])
                    b == getStep(definition, ret[1][j])
                IN \/ a.priority < b.priority
                   \/ /\ a.priority = b.priority
                      /\ declaredAt(definition, a.id)
                            < declaredAt(definition, b.id)

\* C28: step outcomes reported for different steps are applied one after
\* the other and none is lost: a call of updateStepState gives its step the
\* reported status and leaves the recorded state of every other step, and
\* that step's place in activeSteps, as they were; activeSteps holds the
\* step exactly when running was reported, and progress counts the step
\* states as they are after the call. Two calls for steps A and B, in
\* either order, therefore leave both reported statuses in place.
C28_NoLostStepUpdate ==
    [][\A id \in CallerIds, state \in StepStatePatches :
          updateStepState(id, state) =>
              /\ hasStepState(stepStates', id)
              /\ "status" \in DOMAIN state =>
                    /\ stepStates'[id].status = state.status
                    /\ id \in Range(activeSteps') <=> state.status = "running"
              /\ \A other \in CallerIds \ {id} :
                    /\ hasStepState(stepStates', other)
                          <=> hasStepState(stepStates, other)
                    /\ hasStepState(stepStates, other)
                          => stepStates'[other] = stepStates[other]
                    /\ other \in Range(activeSteps')
                          <=> other \in Range(activeSteps)
              /\ progress'.completedSteps
                    = countStatus(stepStates', "completed")
              /\ progress'.failedSteps = countStatus(stepStates', "failed")
              /\ progress'.skippedSteps
                    = countStatus(stepStates', "skipped")]_vars

\* C28 witness: outcomes were reported for S1 and S2: S1 is running and
\* active, S2 is completed and counted.
C28_Witness ==
    /\ definition = IndependentGraph
    /\ hasStepState(stepStates, "S1") /\ stepStates["S1"].status = "running"
    /\ hasStepState(stepStates, "S2") /\ stepStates["S2"].status = "completed"
    /\ ~hasStepState(stepStates, "S3")
    /\ activeSteps = <<"S1">>
    /\ progress.completedSteps = 1
    /\ progress.progressPercent.n * 3 = 100 * progress.progressPercent.d

----------------------------------------------------------------------------
(* Liveness *)

\* A driver that reports step outcomes along the step machine only: a step
\* is reported running from pending, completed or failed from running,
\* skipped or cancelled from pending or running.
ReportOutcome ==
    \E stepId \in CallerIds, s \in StepStatusEnum :
        /\ legalStepTransition(statusOf(stepStates, stepId), s)
        /\ updateStepState(stepId, [status |-> s])

\* The driver starts a run that is still a draft.
StartRun == status = "draft" /\ start

\* Two steps driven to their outcomes; the driver starts the run, keeps
\* reporting outcomes and keeps asking for ready steps. complete, fail and
\* cancel are there to be called, but no code calls them, so nothing obliges
\* them to happen.
InitLive == create(PairGraph) /\ restEmpty

NextLive ==
    \/ StartRun
    \/ ReportOutcome
    \/ GetReadySteps
    \/ complete(emptyRecord)
    \/ \E error \in BOOLEAN : fail(error)
    \/ cancel

SpecLive ==
    /\ InitLive
    /\ [][NextLive]_vars
    /\ WF_vars(StartRun)
    /\ WF_vars(ReportOutcome)
    /\ WF_vars(GetReadySteps)

\* No step is active, waiting or ready, every step is completed, failed,
\* skipped or cancelled, and the run is running.
quiescent ==
    /\ status = "running"
    /\ activeSteps = <<>>
    /\ waitingSteps = <<>>
    /\ ready = <<>>
    /\ \A step \in stepsOf(definition) :
          statusOf(stepStates, step.id)
              \in {"completed", "failed", "skipped", "cancelled"}

\* C29: once no step is active, waiting or ready and every step is in a
\* terminal status, the workflow is eventually closed: its status becomes
\* completed, failed or cancelled.
C29_QuiescentRunEventuallyClosed ==
    quiescent ~> (status \in {"completed", "failed", "cancelled"})

\* The step states with the state of id replaced by one of status s.
withStatus(states, id, s) ==
    [k \in DOMAIN states \cup {id} |->
        IF k = id THEN [status |-> s, retryCount |-> 0] ELSE states[k]]

\* The step states without a state for id.
withoutState(states, id) == [k \in DOMAIN states \ {id} |-> states[k]]

\* C30: runAfter is an ordering hint that does not block: whether
\* getReadySteps returns a step is the same whatever the status (or absence
\* of state) of a step named only in its runAfter, and the list a call has
\* returned holds exactly the pending steps whose dependsOn ids are all
\* completed.
C30_RunAfterDoesNotBlock ==
    /\ \A step \in stepsOf(definition) :
          \A hintId \in (Range(step.runAfter) \ Range(step.dependsOn))
                            \ {step.id} :
              /\ \A s \in StepStatusEnum :
                    step.id \in Range(getReadySteps(
                                    definition,
                                    withStatus(stepStates, hintId, s)))
                        <=> step.id \in Range(ready)
              /\ step.id \in Range(getReadySteps(
                                    definition,
                                    withoutState(stepStates, hintId)))
                    <=> step.id \in Range(ready)
    /\ returned =>
          \A step \in stepsOf(definition) :
              step.id \in Range(ret[1]) <=>
                  /\ statusOf(stepStates, step.id) = "pending"
                  /\ dependsOnCompleted(definition, stepStates, step)

\* C30 witness: getReadySteps has returned S2 alone while S1, named in S2's
\* runAfter, is running.
C30_Witness ==
    /\ definition = RunAfterGraph
    /\ hasStepState(stepStates, "S1")
    /\ stepStates["S1"].status = "running"
    /\ ret = <<(<<"S2">>)>>

\* C31: in every reachable state the progress counters are bounded: the
\* completed, failed and skipped steps together are at most totalSteps, and
\* progressPercent lies between 0 and 100, also after updateStepState was
\* called with a step id that is not in definition.steps.
C31_ProgressCountersBounded ==
    /\ progress.completedSteps + progress.failedSteps + progress.skippedSteps
           <= progress.totalSteps
    /\ 0 <= progress.progressPercent.n
    /\ progress.progressPercent.n <= 100 * progress.progressPercent.d

\* C32: completedAt is set exactly while the run's status is terminal: a
\* completed, failed, cancelled or timeout run has a completedAt, and a
\* draft, pending, running or paused run has none.
C32_CompletedAtIffTerminal ==
    (status \in TerminalWorkflowStatus) <=> (completedAt /= 0)

----------------------------------------------------------------------------
(* Readiness in the two classes: one instance of the class Workflow of
   src/task/Workflow.ts (definition, stepStates) and one of the class
   Workflow of src/taw/WorkflowPure.ts (definition, pureStepStates), both
   built by their constructors from the same data *)

\* The keys of a step that WorkflowStepSchema declares, as far as the model
\* carries them. z.object drops every other key of the data it parses.
WorkflowStepKeys == {"id", "dependsOn", "runAfter", "condition", "priority"}

\* The value WorkflowStepSchema gives for one step of the data.
parseStep(step) == [k \in DOMAIN step \cap WorkflowStepKeys |-> step[k]]

\* The definition both constructors store: WorkflowSchema.parse of the data.
parseDefinition(def) ==
    [def EXCEPT !.steps = [i \in 1..Len(def.steps) |-> parseStep(def.steps[i])]]

\* The data of a caller who writes each step's hard dependencies under both
\* names, dependsOn and dependencies.
withDependencies(def) ==
    [def EXCEPT !.steps =
        [i \in 1..Len(def.steps) |->
            [k \in DOMAIN def.steps[i] \cup {"dependencies"} |->
                IF k = "dependencies" THEN def.steps[i].dependsOn
                ELSE def.steps[i][k]]]]

\* isStepReady of WorkflowPure.ts throws a TypeError when the step exists and
\* has no dependencies: step.dependencies.every is a call on undefined.
pureIsStepReadyThrows(def, stepId) ==
    /\ hasStep(def, stepId)
    /\ "dependencies" \notin DOMAIN getStep(def, stepId)

\* isStepReady of WorkflowPure.ts where it returns: false for an unknown id,
\* otherwise whether every id of step.dependencies has a completed state.
pureIsStepReady(def, states, stepId) ==
    /\ hasStep(def, stepId)
    /\ \A i \in 1..Len(getStep(def, stepId).dependencies) :
          LET depId == getStep(def, stepId).dependencies[i]
          IN /\ hasStepState(states, depId)
             /\ states[depId].status = "completed"

\* getReadySteps of WorkflowPure.ts: <<list>> of the ids it returns, or <<>>
\* when the first filter throws.
pureGetReadySteps(def, states) ==
    IF \E i \in 1..Len(def.steps) : pureIsStepReadyThrows(def, def.steps[i].id)
    THEN <<>>
    ELSE LET isReady ==
                 filter(def.steps,
                        {i \in 1..Len(def.steps) :
                            pureIsStepReady(def, states, def.steps[i].id)})
             kept ==
                 filter(isReady,
                        {i \in 1..Len(isReady) :
                            \/ ~hasStepState(states, isReady[i].id)
                            \/ states[isReady[i].id].status = "pending"})
         IN <<[i \in 1..Len(kept) |-> kept[i].id]>>

\* updateStepState(stepId, state) on the instance of WorkflowPure.ts.
PureUpdateStepState(stepId, state) ==
    LET created == IF hasStepState(pureStepStates, stepId) THEN pureStepStates
                   ELSE [id \in DOMAIN pureStepStates \cup {stepId} |->
                            IF id = stepId
                            THEN [status |-> "pending", attempts |-> 0,
                                  lastAttempt |-> now]
                            ELSE pureStepStates[id]]
    IN /\ pureStepStates' =
            [created EXCEPT ![stepId] = spread(created[stepId], state)]
       /\ ret' = <<>>
       /\ UNCHANGED <<definition, runVars, stepVars, waitingSteps, bagVars,
                      updatedAt, now, workflows, tasks, agents>>

\* getReadySteps() on the instance of WorkflowPure.ts.
PureGetReadySteps ==
    /\ ret' = pureGetReadySteps(definition, pureStepStates)
    /\ UNCHANGED <<definition, restVars, runVars, stepVars, waitingSteps,
                   bagVars, updatedAt, now>>

\* The data handed to both constructors.
ReadinessData ==
    {EmptyGraph, SingleGraph, withDependencies(SingleGraph), PairGraph,
     withDependencies(DiamondGraph)}

InitReadiness ==
    \E data \in ReadinessData : create(parseDefinition(data)) /\ restEmpty

NextReadiness ==
    \/ \E stepId \in {"S1", "S2"}, state \in StepStatePatches :
          updateStepState(stepId, state)
    \/ \E stepId \in {"S1", "S2"}, state \in StepStatePatches :
          PureUpdateStepState(stepId, state)
    \/ GetReadySteps
    \/ PureGetReadySteps

SpecReadiness == InitReadiness /\ [][NextReadiness]_vars

\* The two instances hold the same status for the same step ids.
sameStatuses ==
    /\ DOMAIN stepStates = DOMAIN pureStepStates
    /\ \A id \in DOMAIN stepStates :
          stepStates[id].status = pureStepStates[id].status

\* C33: the two Workflow classes agree on readiness: on the same step graph
\* and with the same step statuses, getReadySteps of WorkflowPure.ts returns
\* the ids, in the order, that getReadySteps of task/Workflow.ts returns.
C33_ImplementationsAgreeOnReadiness ==
    sameStatuses =>
        pureGetReadySteps(definition, pureStepStates)
            = <<getReadySteps(definition, stepStates)>>

----------------------------------------------------------------------------
(* A dispatcher that runs only the steps getReadySteps returned *)

\* S1 is free, S2 and S3 depend on each other, S4 depends on an id that is
\* no step.
BlockedGraph ==
    WorkflowDefinition(
        <<WorkflowStep("S1", <<>>, <<>>, "", 5),
          WorkflowStep("S2", <<"S3">>, <<>>, "", 5),
          WorkflowStep("S3", <<"S1", "S2">>, <<>>, "", 5),
          WorkflowStep("S4", <<"SX">>, <<>>, "", 5)>>, 0)

\* A step the last getReadySteps call returned is set running.
Dispatch ==
    \E stepId \in Range(IF ret = <<>> THEN <<>> ELSE ret[1]) :
        updateStepState(stepId, [status |-> "running"])

\* A running step is set completed.
Finish ==
    \E stepId \in DOMAIN stepStates :
        /\ stepStates[stepId].status = "running"
        /\ updateStepState(stepId, [status |-> "completed"])

\* Any other outcome is recorded for a declared step.
Settle ==
    \E step \in Range(definition.steps),
       s \in {"pending", "failed", "skipped", "cancelled"} :
        updateStepState(step.id, [status |-> s])

InitDispatch ==
    \E def \in {CycleGraph, SelfGraph, DanglingGraph, BlockedGraph} :
        create(def) /\ restEmpty

NextDispatch == GetReadySteps \/ Dispatch \/ Finish \/ Settle

SpecDispatch == InitDispatch /\ [][NextDispatch]_vars

\* The steps on a dependency cycle, and those whose dependsOn names an id
\* that is no step (the dispatcher gives such an id no step state).
blocked(def) ==
    {step \in stepsOf(def) :
        \/ dependsOnPath(def, step.id, step.id, Len(def.steps))
        \/ \E depId \in Range(step.dependsOn) : ~hasStep(def, depId)}

\* C34: when steps complete only after getReadySteps returned them, a step
\* on a dependency cycle, or with a dependsOn id that never receives a step
\* state, is never returned by getReadySteps (neither by the last call nor
\* by one made now), and the run never has all its steps completed.
C34_BlockedStepNeverReady ==
    \A step \in blocked(definition) :
        /\ ret /= <<>> => step.id \notin Range(ret[1])
        /\ step.id \notin Range(getReadySteps(definition, stepStates))
        /\ \E other \in stepsOf(definition) :
              statusOf(stepStates, other.id) /= "completed"

\* The free step of the graph has run to completion, one step of the cycle
\* has failed, and getReadySteps has just returned no step.
C34_Witness ==
    /\ definition = BlockedGraph
    /\ statusOf(stepStates, "S1") = "completed"
    /\ statusOf(stepStates, "S2") = "failed"
    /\ ret = <<(<<>>)>>

----------------------------------------------------------------------------
(* The workflow Workflow.create returns *)

\* Two chains: S2 depends on S1, S4 depends on S3.
ForestGraph ==
    WorkflowDefinition(
        <<WorkflowStep("S1", <<>>, <<>>, "", 5),
          WorkflowStep("S2", <<"S1">>, <<>>, "", 5),
          WorkflowStep("S3", <<>>, <<>>, "", 5),
          WorkflowStep("S4", <<"S3">>, <<>>, "", 5)>>, 0)

InitCreate ==
    \E def \in {EmptyGraph, ForestGraph, DiamondGraph, RunAfterGraph,
                CycleGraph, DanglingGraph} :
        create(def) /\ restEmpty

NextCreate ==
    \/ GetReadySteps
    \/ \E stepId \in {"S1", "S3"}, state \in StepStatePatches :
          updateStepState(stepId, state)

SpecCreate == InitCreate /\ [][NextCreate]_vars

\* The ids of the steps whose dependsOn is empty, in declaration order.
roots(def) ==
    LET free == filter(def.steps,
                       {i \in 1..Len(def.steps) : def.steps[i].dependsOn = <<>>})
    IN [i \in 1..Len(free) |-> free[i].id]

----------------------------------------------------------------------------
(* The two writers of activeSteps *)

InitActive == \E def \in {PairGraph, DanglingGraph} : create(def) /\ restEmpty

NextActive ==
    \/ \E stepId \in CallerIds : setCurrentStep(stepId)
    \/ \E stepId \in CallerIds, state \in StepStatePatches :
          updateStepState(stepId, state)

SpecActive == InitActive /\ [][NextActive]_vars

\* No id occurs at two positions of the list.
noDuplicates(s) == \A i, j \in 1..Len(s) : s[i] = s[j] => i = j

\* C36: after any sequence of setCurrentStep and updateStepState calls
\* activeSteps holds no step id twice, and one updateStepState call with a
\* status other than running leaves no occurrence of the step in activeSteps.
C36_ActiveStepsHoldNoDuplicates ==
    /\ noDuplicates(activeSteps)
    /\ [][/\ noDuplicates(activeSteps')
          /\ \A stepId \in CallerIds, state \in StepStatePatches :
                (/\ updateStepState(stepId, state)
                 /\ "status" \in DOMAIN state
                 /\ state.status /= "running")
                    => stepId \notin Range(activeSteps')]_vars

\* S1 was made the current step, which put it into activeSteps behind S2, and
\* its completion has taken it out again.
C36_Witness ==
    /\ definition = PairGraph
    /\ currentStep = "S1"
    /\ statusOf(stepStates, "S1") = "completed"
    /\ statusOf(stepStates, "S2") = "running"
    /\ activeSteps = <<"S2">>

----------------------------------------------------------------------------
(* The in-memory repositories: WorkflowRepository of src/taw/WorkflowPure.ts,
   TaskRepository of src/taw/repository/task.repository.ts and
   AgentRepository of src/task/repository/agent.repository.ts. Each method
   is async without an await in its body, so its Map operation happens at
   the call. A Map is a record keyed by id; the order of its keys, which
   only the find methods read, is left out. *)

\* The ids and the definitions (an id and a name) the callers pass.
Ids == {"a", "b"}
Names == {"n1", "n2"}
Entities == [id : Ids, name : Names]

\* Map.set(key, value).
mapSet(map, key, value) ==
    [k \in DOMAIN map \cup {key} |-> IF k = key THEN value ELSE map[k]]

\* Map.get(key): <<value>>, or <<>> for undefined.
mapGet(map, key) == IF key \in DOMAIN map THEN <<map[key]>> ELSE <<>>

\* The Map after Map.delete(key).
mapDelete(map, key) == [k \in DOMAIN map \ {key} |-> map[k]]

\* The boolean Map.delete(key) returns, as the handler's return value.
deleted(map, key) == <<[deleted |-> key \in DOMAIN map]>>

\* The fields of the Workflow instances, which no repository touches.
instanceVars ==
    <<definition, runVars, stepVars, waitingSteps, bagVars, updatedAt, now,
      pureStepStates>>

\* A faulty saveWorkflow: an id that is already stored keeps its value.
saveWorkflowKeepingFirst(workflow) ==
    /\ workflows' = IF workflow.id \in DOMAIN workflows THEN workflows
                    ELSE mapSet(workflows, workflow.id, workflow)
    /\ ret' = <<workflow>>
    /\ UNCHANGED <<instanceVars, tasks, agents>>

saveWorkflow(workflow) ==
    /\ workflows' = mapSet(workflows, workflow.id, workflow)
    /\ ret' = <<workflow>>
    /\ UNCHANGED <<instanceVars, tasks, agents>>

getWorkflowById(id) ==
    /\ ret' = mapGet(workflows, id)
    /\ UNCHANGED <<instanceVars, workflows, tasks, agents>>

deleteWorkflow(id) ==
    /\ workflows' = mapDelete(workflows, id)
    /\ ret' = deleted(workflows, id)
    /\ UNCHANGED <<instanceVars, tasks, agents>>

saveTask(task) ==
    /\ tasks' = mapSet(tasks, task.id, task)
    /\ ret' = <<task>>
    /\ UNCHANGED <<instanceVars, workflows, agents>>

getTaskById(id) ==
    /\ ret' = mapGet(tasks, id)
    /\ UNCHANGED <<instanceVars, workflows, tasks, agents>>

deleteTask(id) ==
    /\ tasks' = mapDelete(tasks, id)
    /\ ret' = deleted(tasks, id)
    /\ UNCHANGED <<instanceVars, workflows, agents>>

saveAgent(agent) ==
    /\ agents' = mapSet(agents, agent.id, agent)
    /\ ret' = <<agent>>
    /\ UNCHANGED <<instanceVars, workflows, tasks>>

getAgentById(id) ==
    /\ ret' = mapGet(agents, id)
    /\ UNCHANGED <<instanceVars, workflows, tasks, agents>>

deleteAgent(id) ==
    /\ agents' = mapDelete(agents, id)
    /\ ret' = deleted(agents, id)
    /\ UNCHANGED <<instanceVars, workflows, tasks>>

InitRepository == create(EmptyGraph) /\ restEmpty

NextRepository ==
    \/ \E workflow \in Entities : saveWorkflow(workflow)
    \/ \E id \in Ids : getWorkflowById(id)
    \/ \E id \in Ids : deleteWorkflow(id)
    \/ \E task \in Entities : saveTask(task)
    \/ \E id \in Ids : getTaskById(id)
    \/ \E id \in Ids : deleteTask(id)
    \/ \E agent \in Entities : saveAgent(agent)
    \/ \E id \in Ids : getAgentById(id)
    \/ \E id \in Ids : deleteAgent(id)

SpecRepository == InitRepository /\ [][NextRepository]_vars

\* What a save of entity does to a Map: getById of its id gives the entity
\* from then on, and every other id gives what it gave before.
savedInto(before, after, entity) ==
    /\ mapGet(after, entity.id) = <<entity>>
    /\ \A id \in Ids \ {entity.id} : mapGet(after, id) = mapGet(before, id)

\* What a delete of id does to a Map: getById of the id gives undefined from
\* then on, and every other id gives what it gave before.
deletedFrom(before, after, id) ==
    /\ mapGet(after, id) = <<>>
    /\ \A other \in Ids \ {id} : mapGet(after, other) = mapGet(before, other)

\* C37: in each in-memory repository getById(id) returns the value stored
\* under the id, which is the value of the most recent save of that id, and
\* undefined when the id was never saved or was deleted since: a new
\* repository holds nothing, a save replaces what its own id gives and
\* nothing else, a delete empties its own id and nothing else and returns
\* true exactly when the id was present, and getById changes nothing.
C37_RepositoryHoldsLastSave ==
    /\ \A id \in Ids :
          /\ mapGet(workflows, id) = <<>>
          /\ mapGet(tasks, id) = <<>>
          /\ mapGet(agents, id) = <<>>
    /\ [][/\ \A entity \in Entities :
                /\ saveWorkflow(entity) => savedInto(workflows, workflows', entity)
                /\ saveTask(entity) => savedInto(tasks, tasks', entity)
                /\ saveAgent(entity) => savedInto(agents, agents', entity)
          /\ \A id \in Ids :
                /\ deleteWorkflow(id) =>
                      /\ deletedFrom(workflows, workflows', id)
                      /\ ret'[1].deleted <=> mapGet(workflows, id) /= <<>>
                /\ deleteTask(id) =>
                      /\ deletedFrom(tasks, tasks', id)
                      /\ ret'[1].deleted <=> mapGet(tasks, id) /= <<>>
                /\ deleteAgent(id) =>
                      /\ deletedFrom(agents, agents', id)
                      /\ ret'[1].deleted <=> mapGet(agents, id) /= <<>>
                /\ getWorkflowById(id) =>
                      ret' = mapGet(workflows, id) /\ workflows' = workflows
                /\ getTaskById(id) =>
                      ret' = mapGet(tasks, id) /\ tasks' = tasks
                /\ getAgentById(id) =>
                      ret' = mapGet(agents, id) /\ agents' = agents]_vars

\* A workflow was saved twice under the id a, under n1 and then under n2,
\* the id b was saved and deleted again, and getWorkflowById(a) has returned
\* the second value; the task repository holds another value under a.
C37_Witness ==
    /\ ret = <<[id |-> "a", name |-> "n2"]>>
    /\ mapGet(workflows, "a") = ret
    /\ mapGet(workflows, "b") = <<>>
    /\ mapGet(tasks, "a") = <<[id |-> "a", name |-> "n1"]>>
    /\ mapGet(agents, "a") = <<>>

====
